---------------------------- MODULE Spec2Model ----------------------------
(***************************************************************************)
(* Model of the MarineTraffic aggregation endpoint: the Vercel handler     *)
(* (src/api/vessel.ts) and MarineTrafficService (src/unnamed/part_000).    *)
(*                                                                         *)
(* One inbound request is followed from the handler's entry to its         *)
(* response.  JavaScript runs each synchronous segment to completion, so   *)
(* the only interleaving is the order in which the four outbound calls end.*)
(*                                                                         *)
(* JavaScript values are tagged records: [t |-> "obj", o |-> fields],      *)
(* [t |-> "null"], [t |-> "undef"], [t |-> "str", s |-> text],             *)
(* [t |-> "list", items |-> sequence].  Scalar fields of an object are     *)
(* strings; the value `undefined` is the string Undefined.                 *)
(***************************************************************************)
EXTENDS Integers, Sequences, FiniteSets, TLC

VARIABLES
    query,          \* req.query.vesselId of the inbound request
    cookieFile,     \* public/cookie.json as the file system holds it
    pc,             \* the handler's position
    constructed,    \* a MarineTrafficService has been constructed
    cookieHeader,   \* MarineTrafficService.cookieHeader
    fsOps,          \* file-system calls made, in order
    log,            \* console output, in order
    outbound,       \* outbound GET requests issued, in order
    answers,        \* per slot: how its outbound call ended
    call,           \* per slot of the allSettled array: the sub-fetch's state
    result,         \* what fetchVesselAll returned
    thrown,         \* the exception propagating to the handler's catch
    response        \* the HTTP response sent

vars == <<query, cookieFile, pc, constructed, cookieHeader, fsOps, log,
          outbound, answers, call, result, thrown, response>>

---------------------------------------------------------------------------
(* JavaScript values *)

Undefined == "<undefined>"

None == [t |-> "none"]

Obj(fields) == [t |-> "obj", o |-> fields]

JsNull == [t |-> "null"]

\* v.f for a JavaScript value v that is not null: a missing property, and any
\* property of a string or a number, is undefined.
Get(v, f) ==
    IF v.t = "obj" /\ f \in DOMAIN v.o THEN v.o[f] ELSE Undefined

\* Reading a property of null or undefined throws a TypeError.
ThrowsOnGet(v) == v.t \in {"null", "undef"}

\* `${v}` for a scalar
Template(v) == IF v = Undefined THEN "undefined" ELSE v

\* a || b for scalars: undefined and "" are falsy
OrElse(a, b) == IF a = Undefined \/ a = "" THEN b ELSE a

\* new Date().toISOString(): the clock is not modelled
Now == "<now>"

---------------------------------------------------------------------------
(* The handler's inputs *)

Absent == Undefined

VesselIds == {Absent, "", "1"}

Pair(n, v) == Obj([name |-> n, value |-> v])

EmptyObj == Obj([x \in {} |-> ""])

List(items) == [t |-> "list", items |-> items]

\* The longest cookie list the file holds
MaxCookies == 2

\* What an entry of the list can be: a name/value pair, an object that is
\* not one, and null.
CookieEntries == {Pair("SERVERID", "app7"), EmptyObj, JsNull}

CookieLists == UNION {[1..n -> CookieEntries] : n \in 0..MaxCookies}

\* What public/cookie.json can be: missing, unreadable, not JSON, JSON that
\* is not a list, or a list.
CookieFiles ==
    { [exists |-> FALSE],
      [exists |-> TRUE, readable |-> FALSE],
      [exists |-> TRUE, readable |-> TRUE, json |-> [t |-> "invalid"]],
      [exists |-> TRUE, readable |-> TRUE, json |-> JsNull],
      [exists |-> TRUE, readable |-> TRUE, json |-> EmptyObj] }
    \cup
    { [exists |-> TRUE, readable |-> TRUE, json |-> List(l)] : l \in CookieLists }

---------------------------------------------------------------------------
(* MarineTrafficService.loadCookies *)

RECURSIVE Join(_, _)
\* Array.prototype.join
Join(strs, sep) ==
    IF Len(strs) = 0 THEN ""
    ELSE IF Len(strs) = 1 THEN strs[1]
    ELSE strs[1] \o sep \o Join(Tail(strs), sep)

\* (c) => `${c.name}=${c.value}`
CookieEntry(c) == Template(Get(c, "name")) \o "=" \o Template(Get(c, "value"))

\* The body of the try block throws: readFileSync, JSON.parse, cookies.map
\* on something that has no map, or c.name on a null entry.
LoadThrows(file) ==
    \/ ~file.readable
    \/ file.json.t /= "list"
    \/ \E i \in 1..Len(file.json.items) : ThrowsOnGet(file.json.items[i])

LoadedHeader(file) ==
    Join([i \in 1..Len(file.json.items) |-> CookieEntry(file.json.items[i])], "; ")

\* The cookie header after loadCookies
CookieHeaderAfterLoad(file, before) ==
    IF ~file.exists THEN before
    ELSE IF LoadThrows(file) THEN before
    ELSE LoadedHeader(file)

FsOpsOfLoad(file) ==
    IF file.exists THEN <<"existsSync", "readFileSync">> ELSE <<"existsSync">>

LogOfLoad(file) ==
    IF ~file.exists THEN <<[level |-> "warn", what |-> "Cookie file not found"]>>
    ELSE IF LoadThrows(file) THEN <<[level |-> "error", what |-> "Error loading cookies"]>>
    ELSE <<>>

---------------------------------------------------------------------------
(* Initial state: a request has arrived, nothing has run. *)

Slots == {"general", "position", "voyage", "summary"}

Init ==
    /\ query \in VesselIds
    /\ cookieFile \in CookieFiles
    /\ pc = "entry"
    /\ constructed = FALSE
    /\ cookieHeader = ""
    /\ fsOps = <<>>
    /\ log = <<>>
    /\ outbound = <<>>
    /\ answers = [s \in Slots |-> None]
    /\ call = [s \in Slots |-> [st |-> "idle"]]
    /\ result = None
    /\ thrown = None
    /\ response = None

\* vesselId === undefined
MissingOnlyWhenAbsent(v) == v = Undefined

\* !vesselId
MissingVesselId(v) == v = Undefined \/ v = ""

\* The service constructed before the query is looked at
ValidateAfterConstruct ==
    /\ pc = "entry"
    /\ constructed' = TRUE
    /\ cookieHeader' = CookieHeaderAfterLoad(cookieFile, cookieHeader)
    /\ fsOps' = fsOps \o FsOpsOfLoad(cookieFile)
    /\ log' = log \o LogOfLoad(cookieFile)
    /\ IF MissingVesselId(query)
       THEN /\ response' = [status |-> 400,
                            body |-> Obj([error |-> "Missing vesselId in query"])]
            /\ pc' = "done"
       ELSE /\ pc' = "call"
            /\ UNCHANGED response
    /\ UNCHANGED <<query, cookieFile, outbound, answers, call, result, thrown>>

\* handler, lines 6-10: the query is read and a missing vesselId answered
Validate ==
    /\ pc = "entry"
    /\ IF MissingVesselId(query)
       THEN /\ response' = [status |-> 400,
                            body |-> Obj([error |-> "Missing vesselId in query"])]
            /\ pc' = "done"
       ELSE /\ pc' = "construct"
            /\ UNCHANGED response
    /\ UNCHANGED <<query, cookieFile, constructed, cookieHeader, fsOps, log,
                   outbound, answers, call, result, thrown>>

\* handler, line 12: new MarineTrafficService()
Construct ==
    /\ pc = "construct"
    /\ constructed' = TRUE
    /\ cookieHeader' = CookieHeaderAfterLoad(cookieFile, cookieHeader)
    /\ fsOps' = fsOps \o FsOpsOfLoad(cookieFile)
    /\ log' = log \o LogOfLoad(cookieFile)
    /\ pc' = "call"
    /\ UNCHANGED <<query, cookieFile, outbound, answers, call, result, thrown,
                   response>>

---------------------------------------------------------------------------
(* The outbound calls: axios.get *)

Timeout == 30000

Resources == {"general", "position", "voyage", "summary"}

\* The url of fetchVessel<Resource>
Url(vesselId, r) ==
    "https://www.marinetraffic.com/en/vessels/" \o Template(vesselId) \o "/" \o r

\* getRequestHeaders, as far as it varies
RequestHeaders(header) == [Cookie |-> header]

GetRequest(vesselId, r, header) ==
    [url |-> Url(vesselId, r), headers |-> RequestHeaders(header), timeout |-> Timeout]

\* Response bodies as axios hands them over (response.data): a JSON object, a
\* body that is not JSON (left as text), and the JSON value null.
VesselDoc ==
    Obj([shipId |-> "1", name |-> "EVER GIVEN", imo |-> "9811000",
         mmsi |-> "353136000", country |-> "Panama", type |-> "Container Ship",
         lat |-> "30.01", lon |-> "32.58", speed |-> "0", course |-> "180",
         timestamp |-> "1616500000"])

HtmlPage == [t |-> "str", s |-> "<html>"]

Bodies == {VesselDoc, HtmlPage, JsNull}

\* How one outbound call can end.
AxiosOutcomes ==
    { [kind |-> "response", status |-> 200, statusText |-> "OK", data |-> d] : d \in Bodies }
    \cup
    { [kind |-> "response", status |-> 404, statusText |-> "Not Found", data |-> HtmlPage],
      [kind |-> "response", status |-> 403, statusText |-> "", data |-> HtmlPage],
      [kind |-> "timeout"],
      [kind |-> "network"] }

\* axios' default validateStatus
ValidStatus(status) == status >= 200 /\ status < 300

AxiosResolves(ax) == ax.kind = "response" /\ ValidStatus(ax.status)

\* The error axios.get rejects with
AxiosError(ax) ==
    IF ax.kind = "response"
    THEN [message |-> "Request failed with status code " \o ToString(ax.status),
          hasResponse |-> TRUE, status |-> ax.status, statusText |-> ax.statusText]
    ELSE IF ax.kind = "timeout"
    THEN [message |-> "timeout of " \o ToString(Timeout) \o "ms exceeded",
          hasResponse |-> FALSE]
    ELSE [message |-> "getaddrinfo ENOTFOUND www.marinetraffic.com",
          hasResponse |-> FALSE]

\* The TypeError of response.data.shipId on a null body
NullBodyError ==
    [message |-> "Cannot read properties of null (reading 'shipId')",
     hasResponse |-> FALSE]

---------------------------------------------------------------------------
(* The per-resource fetch operations *)

\* `${error.response?.status}`
StatusText(error) ==
    IF error.hasResponse THEN ToString(error.status) ELSE "undefined"

\* error.message alone
ReasonTextMessageOnly(error) == error.message

\* error.response?.statusText || error.message
ReasonText(error) ==
    IF error.hasResponse /\ error.statusText /= "" THEN error.statusText
    ELSE error.message

\* The Error thrown by the catch block of fetchVessel<Resource>
FetchError(r, error) ==
    [message |-> "Failed to fetch vessel " \o r \o " data: "
                 \o StatusText(error) \o " " \o ReasonText(error)]

\* The record built from response.data
Extract(r, data) ==
    IF r = "general"
    THEN Obj([shipId |-> Get(data, "shipId"),
              name |-> OrElse(Get(data, "name"), "Unknown"),
              imo |-> Get(data, "imo"),
              mmsi |-> Get(data, "mmsi"),
              country |-> Get(data, "country"),
              yearBuilt |-> Get(data, "yearBuilt"),
              type |-> Get(data, "type"),
              last_updated |-> Now])
    ELSE IF r = "position"
    THEN Obj([shipId |-> Get(data, "shipId"),
              lat |-> Get(data, "lat"),
              lon |-> Get(data, "lon"),
              speed |-> Get(data, "speed"),
              course |-> Get(data, "course"),
              timestamp |-> Get(data, "timestamp")])
    ELSE data

\* Building the record reads properties of response.data
ExtractThrows(r, data) == r \in {"general", "position"} /\ ThrowsOnGet(data)

\* The key the record is returned under
PayloadKey(r) == IF r = "general" THEN "vessel" ELSE r

FetchResult(r, data) ==
    (PayloadKey(r) :> Extract(r, data))
        @@ [success |-> Obj([v |-> "true"]), timestamp |-> Obj([v |-> Now])]

\* How the promise of fetchVessel<Resource> settles once axios.get has
\* settled with ax.
FetchSettles(r, ax) ==
    IF ~AxiosResolves(ax)
    THEN [st |-> "rejected", reason |-> FetchError(r, AxiosError(ax))]
    ELSE IF ExtractThrows(r, ax.data)
    THEN [st |-> "rejected", reason |-> FetchError(r, NullBodyError)]
    ELSE [st |-> "fulfilled", value |-> FetchResult(r, ax.data)]

---------------------------------------------------------------------------
(* fetchVesselAll *)

SlotOrder == <<"general", "position", "voyage", "summary">>

\* fetchVesselGeneral called twice, fetchVesselPosition never
FetchOfCopyPaste(slot) == IF slot = "position" THEN "general" ELSE slot

\* The fetch operation whose promise fills the slot (lines 173-178)
FetchOf(slot) == slot

\* Only the first fetch operation is called
StartedOnlyFirst == {"general"}

\* The sub-fetches whose calls are made before the await
StartedOnCall == Slots

Settled(c) == c.st \in {"fulfilled", "rejected"}

RECURSIVE RequestsOf(_, _, _)
\* The GETs issued by calling the fetch operations of `slots` in order
RequestsOf(slots, vesselId, header) ==
    IF Len(slots) = 0 THEN <<>>
    ELSE IF Head(slots) \in StartedOnCall
    THEN <<GetRequest(vesselId, FetchOf(Head(slots)), header)>>
             \o RequestsOf(Tail(slots), vesselId, header)
    ELSE RequestsOf(Tail(slots), vesselId, header)

\* handler line 13, fetchVesselAll lines 173-178: each fetch operation runs
\* to its await of axios.get; then fetchVesselAll awaits the join.
FanOut ==
    /\ pc = "call"
    /\ outbound' = outbound \o RequestsOf(SlotOrder, query, cookieHeader)
    /\ call' = [s \in Slots |->
                  IF s \in StartedOnCall THEN [st |-> "pending"] ELSE call[s]]
    /\ pc' = "await"
    /\ UNCHANGED <<query, cookieFile, constructed, cookieHeader, fsOps, log,
                   answers, result, thrown, response>>

\* An outbound call ends (the upstream answers, the network fails or the
\* timeout fires) and, in the same turn of the event loop, the fetch operation
\* resumes after its await and settles its promise.
Settle(s) ==
    /\ call[s].st = "pending"
    /\ \E ax \in AxiosOutcomes :
          /\ answers' = [answers EXCEPT ![s] = ax]
          /\ call' = [call EXCEPT ![s] = FetchSettles(FetchOf(s), ax)]
    /\ UNCHANGED <<query, cookieFile, pc, constructed, cookieHeader, fsOps, log,
                   outbound, result, thrown, response>>

\* Promise.all settles with the first rejection
FailFastSettled(c) ==
    \/ \E s \in Slots : c[s].st = "rejected"
    \/ \A s \in Slots : c[s].st = "fulfilled"

\* Promise.allSettled settles once every promise has settled
JoinSettled(c) == \A s \in Slots : Settled(c[s])

\* Promise.all rejects with the reason of a rejected promise
PromiseAllRejection(c) ==
    IF \E s \in Slots : c[s].st = "rejected"
    THEN c[CHOOSE s \in Slots : c[s].st = "rejected"].reason
    ELSE None

\* and never rejects
JoinRejection(c) == None

\* The promise of Promise.allSettled settles.
AwaitJoin ==
    /\ pc = "await"
    /\ JoinSettled(call)
    /\ pc' = "joined"
    /\ UNCHANGED <<query, cookieFile, constructed, cookieHeader, fsOps, log,
                   outbound, answers, call, result, thrown, response>>

\* value.vessel, value.position, ...: a missing property is undefined
Payload(value, key) ==
    IF key \in DOMAIN value THEN value[key] ELSE [t |-> "undef"]

\* A failed sub-fetch leaves null in its slot
SlotValueNullOnError(s, c) ==
    IF c.st = "fulfilled" THEN Payload(c.value, PayloadKey(s)) ELSE JsNull

\* general.status === "fulfilled" ? general.value.vessel : { error: general.reason.message }
SlotValue(s, c) ==
    IF c.st = "fulfilled" THEN Payload(c.value, PayloadKey(s))
    ELSE Obj([error |-> c.reason.message])

\* The result of fetchVesselAll, lines 180-195
Merged(vesselId, c) ==
    Obj([vesselId |-> vesselId,
         data |-> [s \in Slots |-> SlotValue(s, c[s])],
         timestamp |-> Now])

\* fetchVesselAll resumes after its await: it merges and returns, or its
\* catch block wraps what the await threw.
Merge ==
    /\ pc = "joined"
    /\ IF JoinRejection(call) = None
       THEN /\ result' = Merged(query, call)
            /\ UNCHANGED thrown
       ELSE /\ thrown' = [message |-> "Failed to fetch all vessel data: "
                                        \o JoinRejection(call).message]
            /\ UNCHANGED result
    /\ pc' = "return"
    /\ UNCHANGED <<query, cookieFile, constructed, cookieHeader, fsOps, log,
                   outbound, answers, call, response>>

\* handler, lines 15-19: the handler resumes after its await
Respond ==
    /\ pc = "return"
    /\ IF thrown = None
       THEN /\ response' = [status |-> 200, body |-> result]
            /\ UNCHANGED log
       ELSE /\ log' = Append(log, [level |-> "error", what |-> "API error:"])
            /\ response' = [status |-> 500,
                            body |-> Obj([error |-> OrElse(thrown.message,
                                                           "Internal Server Error")])]
    /\ pc' = "done"
    /\ UNCHANGED <<query, cookieFile, constructed, cookieHeader, fsOps,
                   outbound, answers, call, result, thrown>>

Next ==
    \/ Validate
    \/ Construct
    \/ FanOut
    \/ \E s \in Slots : Settle(s)
    \/ AwaitJoin
    \/ Merge
    \/ Respond

Spec == Init /\ [][Next]_vars

\* The event loop runs every continuation that is ready, and every outbound
\* call ends: the upstream answers, the network fails or the timeout fires.
FairSpec ==
    /\ Spec
    /\ WF_vars(Validate) /\ WF_vars(Construct) /\ WF_vars(FanOut)
    /\ \A s \in Slots : WF_vars(Settle(s))
    /\ WF_vars(AwaitJoin) /\ WF_vars(Merge) /\ WF_vars(Respond)

---------------------------------------------------------------------------
(* Properties *)

Responded == pc = "done"

HasVesselId == query \notin {Absent, ""}

IsErrorObject(v) == v.t = "obj" /\ "error" \in DOMAIN v.o

Failed(s) == call[s].st = "rejected"

Succeeded(s) == call[s].st = "fulfilled"

\* The record a fulfilled sub-fetch returned, by the slot's own key
RecordOf(s) ==
    CASE s = "general" -> call[s].value.vessel
      [] s = "position" -> call[s].value.position
      [] s = "voyage" -> call[s].value.voyage
      [] s = "summary" -> call[s].value.summary

C2_OkWithVesselId ==
    /\ thrown = None
    /\ (Responded /\ HasVesselId) => response.status = 200

C2_Witness ==
    /\ Responded
    /\ \A s \in Slots : Failed(s)
    /\ response.status = 200

\* C3: a request whose vesselId is absent or empty is answered with HTTP 400
\* and goes no further, whatever the cookie file holds.
C3_MissingIdIs400 ==
    ~HasVesselId =>
        /\ pc \in {"entry", "done"}
        /\ Responded => response.status = 400

C3_Witness ==
    /\ Responded
    /\ query = ""
    /\ cookieFile.exists
    /\ response.status = 400

\* C4: no sub-fetch settles before all four have been started, and
\* fetchVesselAll goes past its await only when all four have settled.
C4_SettleAllJoin ==
    /\ (\E s \in Slots : Settled(call[s])) => \A s \in Slots : call[s].st /= "idle"
    /\ (HasVesselId /\ pc \in {"joined", "return", "done"}) =>
           \A s \in Slots : Settled(call[s])

C4_Witness ==
    /\ pc = "await"
    /\ Failed("general")
    /\ call["summary"].st = "pending"

IsPair(e) == e.t = "obj" /\ {"name", "value"} \subseteq DOMAIN e.o

Malformed(file) ==
    /\ file.exists
    /\ file.readable
    /\ \/ file.json.t /= "list"
       \/ \E i \in 1..Len(file.json.items) : ~IsPair(file.json.items[i])

\* C5: after construction the cookie header is empty whenever the cookie
\* file is missing or malformed (not JSON, not a list, or a list with an
\* entry that is not a name/value pair).
C5_EmptyHeaderWhenMalformed ==
    (constructed /\ (~cookieFile.exists \/ Malformed(cookieFile))) => cookieHeader = ""

Prefix(s) == "Failed to fetch vessel " \o s \o " data: "

\* C6 as stated: every failure message is the prefix followed by the status
\* code the upstream answered with and a message.
C6_MessageHasUpstreamStatus ==
    \A s \in Slots :
        Failed(s) =>
            /\ answers[s].kind = "response"
            /\ \E text \in {answers[s].statusText,
                            "Request failed with status code " \o ToString(answers[s].status)} :
                  call[s].reason.message =
                      Prefix(s) \o ToString(answers[s].status) \o " " \o text

\* C6, amended: a sub-fetch fulfils or fails with the prefix followed by the
\* status code and status text of an HTTP error answer (the axios message
\* when the status text is empty), and by "undefined" and the error's own
\* message when there is no error answer: a timeout, a network error, or a
\* null body in the general and position fetches.
C6_FailureMessages ==
    \A s \in Slots :
        Settled(call[s]) =>
            LET ax == answers[s]
                msg == call[s].reason.message
            IN  CASE ax.kind = "timeout" ->
                       Failed(s) /\ msg = Prefix(s) \o "undefined timeout of 30000ms exceeded"
                  [] ax.kind = "network" ->
                       Failed(s) /\ msg = Prefix(s)
                           \o "undefined getaddrinfo ENOTFOUND www.marinetraffic.com"
                  [] ax.kind = "response" /\ ax.status = 404 ->
                       Failed(s) /\ msg = Prefix(s) \o "404 Not Found"
                  [] ax.kind = "response" /\ ax.status = 403 ->
                       Failed(s) /\ msg = Prefix(s) \o "403 Request failed with status code 403"
                  [] ax.kind = "response" /\ ax.status = 200 /\ ax.data = JsNull
                        /\ s \in {"general", "position"} ->
                       Failed(s) /\ msg = Prefix(s)
                           \o "undefined Cannot read properties of null (reading 'shipId')"
                  [] OTHER -> Succeeded(s) /\ RecordOf(s).t /= "undef"

C6_Witness ==
    /\ Failed("general") /\ Failed("position") /\ Succeeded("voyage")
    /\ answers["general"].kind = "response" /\ answers["general"].status = 404
    /\ answers["position"].kind = "timeout"
    /\ answers["voyage"] = [kind |-> "response", status |-> 200, statusText |-> "OK",
                            data |-> JsNull]

CookieLogs == {"Cookie file not found", "Error loading cookies"}

FailureLogged == \E i \in 1..Len(log) : log[i].what \notin CookieLogs

\* C7: when the response is sent after a missing-parameter error, a failed
\* sub-fetch or an exception, a log entry for that failure has been emitted.
C7_FailuresLogged ==
    (Responded /\ (response.status /= 200 \/ \E s \in Slots : Failed(s))) => FailureLogged

Issued(r) ==
    Cardinality({i \in 1..Len(outbound) :
        outbound[i].url = "https://www.marinetraffic.com/en/vessels/" \o query \o "/" \o r})

\* C8: a request with a vesselId issues exactly four GETs, one per resource,
\* all at the fan-out and none afterwards, whichever sub-fetches fail.
C8_OneGetPerResource ==
    IF pc \in {"entry", "construct", "call"} \/ ~HasVesselId
    THEN outbound = <<>>
    ELSE /\ Len(outbound) = 4
         /\ \A r \in Resources : Issued(r) = 1

C8_Witness ==
    /\ Responded
    /\ Failed("general") /\ Failed("summary")
    /\ Len(outbound) = 4

TimeoutError(s) == Obj([error |-> Prefix(s) \o "undefined timeout of 30000ms exceeded"])

OkDoc == [kind |-> "response", status |-> 200, statusText |-> "OK", data |-> VesselDoc]

\* What a slot holds when the upstream answered its call with VesselDoc
DocRecord(s) ==
    CASE s = "general" ->
           Obj([shipId |-> "1", name |-> "EVER GIVEN", imo |-> "9811000",
                mmsi |-> "353136000", country |-> "Panama", yearBuilt |-> Undefined,
                type |-> "Container Ship", last_updated |-> Now])
      [] s = "position" ->
           Obj([shipId |-> "1", lat |-> "30.01", lon |-> "32.58", speed |-> "0",
                course |-> "180", timestamp |-> "1616500000"])
      [] OTHER -> VesselDoc

OwnBranchOnly ==
    (Responded /\ HasVesselId) =>
        /\ response.status = 200
        /\ \A s \in Slots :
              /\ answers[s].kind = "timeout" <=> response.body.o.data[s] = TimeoutError(s)
              /\ answers[s] = OkDoc => response.body.o.data[s] = DocRecord(s)

\* C9: when every outbound call ends, every request is answered; a slot
\* holds the timeout error exactly when its own call timed out, and a slot
\* whose call was answered holds its record whatever happened to the others.
C9_AnsweredOwnBranchOnly == <>Responded /\ []OwnBranchOnly

C9_Witness ==
    /\ Responded /\ HasVesselId
    /\ answers["voyage"].kind = "timeout"
    /\ answers["general"] = OkDoc
    /\ response.body.o.data["voyage"] = TimeoutError("voyage")
    /\ response.body.o.data["general"] = DocRecord("general")

\* C10: a request answered with HTTP 400 constructed no service, made no
\* file-system call and issued no outbound request.
C10_RejectionHasNoEffect ==
    (Responded /\ response.status = 400) =>
        /\ ~constructed
        /\ fsOps = <<>>
        /\ outbound = <<>>
        /\ \A s \in Slots : call[s].st = "idle"
        /\ cookieHeader = ""

C10_Witness ==
    /\ Responded
    /\ response.status = 400
    /\ cookieFile.exists
    /\ fsOps = <<>>

=============================================================================
